---- MODULE Spec2Model ----
(***************************************************************************)
(* Model of PcbDrawSvg (isolate_masks.py): the mask-isolation engine that  *)
(* captures the three PcbDraw masks of an SVG document, strips the masking *)
(* references, isolates the board and reinserts or exports the masks.      *)
(*                                                                         *)
(* The document is an lxml element tree.  lxml elements are objects with   *)
(* identity: an element has at most one parent, append/insert MOVE an      *)
(* element, and the mask store holds references to elements.  The model    *)
(* therefore keeps one heap of element objects (nid -> element) and the    *)
(* object's fields (root_orig, root, board, masks) are nids into it.       *)
(*                                                                         *)
(* Two copies of isolate_masks.py live in the repository; they differ in   *)
(* load() and add_mask_patterns().  variant = "pkg" is                     *)
(* PcbDrawToPdf/isolate_masks.py (the one ui.py imports), variant = "src"  *)
(* is src/pcbdrawtopdf/isolate_masks.py.                                   *)
(***************************************************************************)
EXTENDS Integers, Sequences, FiniteSets, TLC

VARIABLES
    variant,    \* which copy of isolate_masks.py runs: "pkg" | "src"
    loaded,     \* load() has completed
    heap,       \* element objects: nid -> [tag, attrib, text, tail, kids]
    nsmap,      \* namespace prefixes declared on the root (root.nsmap keys)
    root_orig,  \* self.root_orig (nid, 0 before load)
    root,       \* self.root      (nid, 0 before load)
    board,      \* self.board     (nid, 0 before load)
    masks,      \* self.masks: mask name -> nid of the stored element
    keys,       \* insertion order of self.masks (a Python dict keeps it)
    filename,   \* self.filename
    ext,        \* self.ext
    files,      \* the output directory: file name -> serialized document
    parsed,     \* history: the document as etree.parse returned it at load
    last,       \* history: the last call, its arguments, outcome and writes
    calls       \* history: the calls made after load, [op, err] each

vars == <<variant, loaded, heap, nsmap, root_orig, root, board, masks, keys,
          filename, ext, files, parsed, last, calls>>

(***************************************************************************)
(* Bounds of the model.                                                    *)
(***************************************************************************)
MaxOps == 4

(***************************************************************************)
(* Text.  An lxml text or tail is None or a string; strings are modelled   *)
(* as sequences of one-character strings so that len() and replace() are   *)
(* computed, and None as a value that is no such sequence.                 *)
(***************************************************************************)
None == <<"None">>
Spaces(n) == [i \in 1..n |-> " "]
Indent(n) == <<"\n">> \o Spaces(n)
StripNewlines(s) == SelectSeq(s, LAMBDA c : c # "\n")

(***************************************************************************)
(* Sequence helpers.                                                       *)
(***************************************************************************)
Range(s) == {s[i] : i \in 1..Len(s)}
Without(s, x) == SelectSeq(s, LAMBDA y : y # x)
IndexOf(s, x) == CHOOSE i \in 1..Len(s) : s[i] = x

RECURSIVE SumSeq(_)
SumSeq(s) == IF s = <<>> THEN 0 ELSE Head(s) + SumSeq(Tail(s))

RECURSIVE Flat(_)
Flat(ss) == IF ss = <<>> THEN <<>> ELSE Head(ss) \o Flat(Tail(ss))

(***************************************************************************)
(* The lxml element tree, as far as isolate_masks.py uses it.              *)
(***************************************************************************)
GTag == "svg:g"
MaskNames == <<"hole-mask", "pads-mask-silkscreen", "pads-mask">>
EmptyBoardError == "Exception: The board hasn not elements."

\* len(elem)
NKids(h, n) == Len(h[n].kids)

\* elem.getparent(): 0 stands for None
GetParent(h, n) ==
    IF \E p \in DOMAIN h : n \in Range(h[p].kids)
    THEN CHOOSE p \in DOMAIN h : n \in Range(h[p].kids)
    ELSE 0

\* the subtree of n in document order, n first
RECURSIVE Preorder(_, _)
Preorder(h, n) ==
    <<n>> \o Flat([i \in 1..Len(h[n].kids) |-> Preorder(h, h[n].kids[i])])

\* what ".//*" selects from n: its descendants in document order, not n
Descendants(h, n) == Tail(Preorder(h, n))

HasAttr(h, n, a) == a \in DOMAIN h[n].attrib

\* parent.remove(child), for a child of parent
RemoveChild(h, p, c) == [h EXCEPT ![p].kids = Without(@, c)]

\* the element leaves the parent it has, if any (libxml2 unlinks a node
\* before linking it elsewhere)
Unlink(h, c) ==
    LET q == GetParent(h, c) IN IF q = 0 THEN h ELSE RemoveChild(h, q, c)

\* parent.append(child): the child moves to the end of parent's children
AppendChild(h, p, c) ==
    LET h1 == Unlink(h, c) IN [h1 EXCEPT ![p].kids = Append(@, c)]

\* parent.insert(-1, child): the child moves before the child that is last
\* when the call starts; appended if there is none; nothing moves when
\* the child is that last child itself
InsertBeforeLast(h, p, c) ==
    LET ks == h[p].kids IN
    IF ks = <<>> THEN AppendChild(h, p, c)
    ELSE LET target == ks[Len(ks)] IN
         IF target = c THEN h
         ELSE LET h1 == Unlink(h, c)
                  k1 == h1[p].kids
                  i  == IndexOf(k1, target)
              IN [h1 EXCEPT ![p].kids =
                     SubSeq(k1, 1, i - 1) \o <<c>> \o SubSeq(k1, i, Len(k1))]

\* the n smallest nids not in use
RECURSIVE FreshIds(_, _)
FreshIds(used, n) ==
    IF n = 0 THEN <<>>
    ELSE LET m == CHOOSE i \in 1..(Cardinality(used) + 1) : 
                      /\ i \notin used
                      /\ \A j \in 1..(i - 1) : j \in used
         IN <<m>> \o FreshIds(used \cup {m}, n - 1)

\* copy.deepcopy(elem): a new parent-less element, the subtree copied with
\* its texts, tails and attributes; [heap, nid]
DeepCopy(h, n) ==
    LET old == Preorder(h, n)
        new == FreshIds(DOMAIN h, Len(old))
        To(o) == new[IndexOf(old, o)]
        copy == [m \in Range(new) |->
                   LET o == old[IndexOf(new, m)] IN
                   [h[o] EXCEPT !.kids = [i \in 1..Len(h[o].kids) |-> To(h[o].kids[i])]]]
    IN [heap |-> copy @@ h, nid |-> new[1]]

\* the elements still referenced from the object's fields
Reachable(h, roots) ==
    UNION {Range(Preorder(h, r)) : r \in roots \ {0}}

Collect(h, roots) ==
    LET live == Reachable(h, roots) IN [n \in live |-> h[n]]

\* the tree below n as a value: what tree.write serializes, and what
\* structural equality compares
RECURSIVE ToValue(_, _)
ToValue(h, n) ==
    [tag |-> h[n].tag, attrib |-> h[n].attrib, text |-> h[n].text,
     tail |-> h[n].tail,
     kids |-> [i \in 1..Len(h[n].kids) |-> ToValue(h, h[n].kids[i])]]

(***************************************************************************)
(* The PcbDrawSvg object while a method runs: its fields, the exception    *)
(* raised so far (err, "ok" for none), the value the current helper        *)
(* returns (ret) and the files the call has written (writes).  A Python    *)
(* exception ends the method where it is raised and keeps what was done    *)
(* before it.                                                              *)
(***************************************************************************)
Ok(s) == s.err = "ok"
Raise(s, e) == [s EXCEPT !.err = e]
Then(s, F(_)) == IF Ok(s) THEN F(s) ELSE s
QName(ns, tag) == ns \o ":" \o tag

\* get_id: the first element below the root, in document order, with that id
GetId(s, id) ==
    LET found == SelectSeq(Descendants(s.heap, s.root),
                     LAMBDA n : HasAttr(s.heap, n, "id") /\ s.heap[n].attrib["id"] = id)
    IN IF found = <<>> THEN Raise(s, "IndexError")
       ELSE [s EXCEPT !.ret = found[1]]

GetBoard(s) ==
    LET r == GetId(s, "boardContainer")
    IN IF Ok(r) THEN [r EXCEPT !.board = r.ret] ELSE r

\* rm_tag's loop over the matches found before the loop
\* rm_tag's loop had it skipped a match whose parent has no parent
RECURSIVE RmTagLoopSkipping(_, _, _)
RmTagLoopSkipping(s, groups, remove_parent) ==
    IF groups = <<>> THEN s
    ELSE LET group == Head(groups)
             elem == GetParent(s.heap, group)
         IN IF elem = 0 THEN Raise(s, "AttributeError")
            ELSE LET parent == GetParent(s.heap, elem)
                     h1 == IF remove_parent
                           THEN IF parent # 0
                                THEN RemoveChild(s.heap, parent, elem)
                                ELSE s.heap
                           ELSE RemoveChild(s.heap, elem, group)
                 IN RmTagLoopSkipping([s EXCEPT !.heap = h1, !.ret = elem],
                                      Tail(groups), remove_parent)

RECURSIVE RmTagLoop(_, _, _)
RmTagLoop(s, groups, remove_parent) ==
    IF groups = <<>> THEN s
    ELSE LET group == Head(groups)
             elem == GetParent(s.heap, group)
         IN IF elem = 0 THEN Raise(s, "AttributeError")
            ELSE LET parent == GetParent(s.heap, elem)
                     h1 == IF remove_parent /\ parent # 0
                           THEN RemoveChild(s.heap, parent, elem)
                           ELSE RemoveChild(s.heap, elem, group)
                 IN RmTagLoop([s EXCEPT !.heap = h1, !.ret = elem],
                              Tail(groups), remove_parent)

RmTag(s, elem, tag, ns, recursive, remove_parent) ==
    IF ns \notin s.nsmap THEN Raise(s, "KeyError")
    ELSE LET gtag == QName(ns, tag)
             scope == IF recursive THEN Descendants(s.heap, elem)
                      ELSE s.heap[elem].kids
             groups == SelectSeq(scope, LAMBDA n : s.heap[n].tag = gtag)
         IN RmTagLoop([s EXCEPT !.ret = elem], groups, remove_parent)

\* rm_attr's loop body: the id takes the attribute's value, the attribute goes
\* (RenameIdKeepAttr: the same without the del of the attribute)
RenameIdKeepAttr(a, attr) == [a EXCEPT !["id"] = a["id"] \o "_" \o a[attr]]

RenameId(a, attr) ==
    LET a1 == [a EXCEPT !["id"] = a["id"] \o "_" \o a[attr]]
    IN [k \in DOMAIN a1 \ {attr} |-> a1[k]]

RECURSIVE RmAttrLoop(_, _, _)
RmAttrLoop(s, groups, attr) ==
    IF groups = <<>> THEN s
    ELSE LET group == Head(groups)
             a == s.heap[group].attrib
         IN IF "id" \notin DOMAIN a THEN Raise(s, "KeyError")
            ELSE RmAttrLoop([s EXCEPT !.heap[group].attrib = RenameId(a, attr)],
                            Tail(groups), attr)

RmAttr(s, elem, attr) ==
    LET groups == SelectSeq(Descendants(s.heap, elem),
                      LAMBDA n : HasAttr(s.heap, n, attr))
    IN RmAttrLoop([s EXCEPT !.ret = elem], groups, attr)

RECURSIVE RmEachFromParent(_, _)
RmEachFromParent(s, groups) ==
    IF groups = <<>> THEN s
    ELSE LET group == Head(groups)
             parent == GetParent(s.heap, group)
         IN IF parent = 0 THEN Raise(s, "AttributeError")
            ELSE RmEachFromParent(
                     [s EXCEPT !.heap = RemoveChild(s.heap, parent, group)],
                     Tail(groups))

RmElemByAttrValue(s, elem, attr, value) ==
    LET groups == SelectSeq(Descendants(s.heap, elem),
                      LAMBDA n : HasAttr(s.heap, n, attr)
                                 /\ s.heap[n].attrib[attr] = value)
    IN RmEachFromParent([s EXCEPT !.ret = elem], groups)

\* the sibling that follows x among the children of p; 0 when x is the last
NextSibling(h, p, x) ==
    LET ks == h[p].kids
        i == IndexOf(ks, x)
    IN IF i < Len(ks) THEN ks[i + 1] ELSE 0

RECURSIVE RmElemEmpty(_, _)

\* the loop of rm_elem_empty had it stepped through the children by position
\* (as a Python list is iterated): after a removal the next child is skipped
RECURSIVE RmElemEmptyByPosition(_, _, _)
RmElemEmptyByPosition(s, elem, x) ==
    IF x = 0 THEN s
    ELSE LET i == IndexOf(s.heap[elem].kids, x)
             s1 == IF NKids(s.heap, x) > 0 THEN RmElemEmpty(s, x)
                   ELSE IF s.heap[x].text = None
                           /\ Cardinality(DOMAIN s.heap[x].attrib) = 1
                        THEN [s EXCEPT !.heap =
                                 RemoveChild(s.heap, GetParent(s.heap, x), x)]
                        ELSE s
             ks == s1.heap[elem].kids
         IN IF ~Ok(s1) THEN s1
            ELSE RmElemEmptyByPosition(s1, elem,
                     IF i < Len(ks) THEN ks[i + 1] ELSE 0)

\* rm_elem_empty's loop, x the child the iterator yields (0: exhausted).
\* lxml's child iterator fetches the sibling that follows x when it yields
\* x, before the loop body runs.
RECURSIVE RmElemEmptyFrom(_, _, _)
RmElemEmptyFrom(s, elem, x) ==
    IF x = 0 THEN s
    ELSE LET following == NextSibling(s.heap, elem, x)
             s1 == IF NKids(s.heap, x) > 0 THEN RmElemEmpty(s, x)
                   ELSE IF s.heap[x].text = None
                           /\ Cardinality(DOMAIN s.heap[x].attrib) = 1
                        THEN [s EXCEPT !.heap =
                                 RemoveChild(s.heap, GetParent(s.heap, x), x)]
                        ELSE s
         IN IF ~Ok(s1) THEN s1 ELSE RmElemEmptyFrom(s1, elem, following)

RmElemEmpty(s, elem) ==
    RmElemEmptyFrom(s, elem,
        IF NKids(s.heap, elem) = 0 THEN 0 ELSE s.heap[elem].kids[1])

RECURSIVE RmEmptyGroupsLoop(_, _)
RmEmptyGroupsLoop(s, groups) ==
    IF groups = <<>> THEN s
    ELSE LET group == Head(groups)
             empty == /\ NKids(s.heap, group) = 0
                      /\ DOMAIN s.heap[group].attrib = {"id"}
             parent == GetParent(s.heap, group)
         IN IF ~empty THEN RmEmptyGroupsLoop(s, Tail(groups))
            ELSE IF parent = 0 THEN Raise(s, "AttributeError")
            ELSE RmEmptyGroupsLoop(
                     [s EXCEPT !.heap = RemoveChild(s.heap, parent, group)],
                     Tail(groups))

RmEmptyGroups(s, elem) ==
    IF "svg" \notin s.nsmap THEN Raise(s, "KeyError")
    ELSE RmEmptyGroupsLoop(s,
             SelectSeq(Descendants(s.heap, elem), LAMBDA n : s.heap[n].tag = GTag))

Clean(s) ==
    LET s1 == RmEmptyGroups(s, s.root)
        s2 == Then(s1, LAMBDA t : RmElemByAttrValue(t, t.root, "id", "highlightContainer"))
        s3 == Then(s2, LAMBDA t : RmTag(t, t.root, "metadata", "svg", TRUE, FALSE))
    IN Then(s3, LAMBDA t : RmTag(t, t.root, "namedview", "svg", TRUE, FALSE))

RmInkElem(s) ==
    Then(RmTag(s, s.root, "namedview", "sodipodi", FALSE, FALSE),
         LAMBDA t : RmTag(t, t.root, "desc", "svg", FALSE, FALSE))

(***************************************************************************)
(* Mask capture.                                                           *)
(***************************************************************************)
\* get_mask had it stored the element found itself, not a copy of it
GetMaskNoCopy(s, mask_name) ==
    IF "svg" \notin s.nsmap THEN Raise(s, "KeyError")
    ELSE LET r == GetId(s, mask_name) IN
         IF ~Ok(r) THEN r
         ELSE [r EXCEPT
                 !.heap = [r.heap EXCEPT ![r.ret].tag = GTag,
                                         ![r.ret].text = <<>>,
                                         ![r.ret].tail = <<>>],
                 !.masks = (mask_name :> r.ret) @@ r.masks,
                 !.keys = IF mask_name \in Range(r.keys) THEN r.keys
                          ELSE Append(r.keys, mask_name)]

\* get_mask had it left the copy's text and tail as copied
GetMaskKeepText(s, mask_name) ==
    IF "svg" \notin s.nsmap THEN Raise(s, "KeyError")
    ELSE LET r == GetId(s, mask_name) IN
         IF ~Ok(r) THEN r
         ELSE LET c == DeepCopy(r.heap, r.ret)
              IN [r EXCEPT
                    !.heap = [c.heap EXCEPT ![c.nid].tag = GTag],
                    !.masks = (mask_name :> c.nid) @@ r.masks,
                    !.keys = IF mask_name \in Range(r.keys) THEN r.keys
                             ELSE Append(r.keys, mask_name)]

\* get_mask had it set the tag on the element found instead of the copy
GetMaskRetagSource(s, mask_name) ==
    IF "svg" \notin s.nsmap THEN Raise(s, "KeyError")
    ELSE LET r == GetId(s, mask_name) IN
         IF ~Ok(r) THEN r
         ELSE LET c == DeepCopy(r.heap, r.ret)
              IN [r EXCEPT
                    !.heap = [c.heap EXCEPT ![r.ret].tag = GTag,
                                            ![c.nid].text = <<>>,
                                            ![c.nid].tail = <<>>],
                    !.masks = (mask_name :> c.nid) @@ r.masks,
                    !.keys = IF mask_name \in Range(r.keys) THEN r.keys
                             ELSE Append(r.keys, mask_name)]

GetMask(s, mask_name) ==
    IF "svg" \notin s.nsmap THEN Raise(s, "KeyError")
    ELSE LET r == GetId(s, mask_name) IN
         IF ~Ok(r) THEN r
         ELSE LET c == DeepCopy(r.heap, r.ret)
              IN [r EXCEPT
                    !.heap = [c.heap EXCEPT ![c.nid].tag = GTag,
                                            ![c.nid].text = <<>>,
                                            ![c.nid].tail = <<>>],
                    !.masks = (mask_name :> c.nid) @@ r.masks,
                    !.keys = IF mask_name \in Range(r.keys) THEN r.keys
                             ELSE Append(r.keys, mask_name)]

GetMasks(s) ==
    LET s1 == GetMask(s, "hole-mask")
        s2 == Then(s1, LAMBDA t : GetMask(t, "pads-mask-silkscreen"))
    IN Then(s2, LAMBDA t : GetMask(t, "pads-mask"))

(***************************************************************************)
(* Board isolation and mask stripping.                                     *)
(***************************************************************************)
\* isolate_board had it looked up and removed the components last
IsolateBoardComponentsLast(s) ==
    LET s3 == GetBoard(s)
        s4 == Then(s3, LAMBDA t : RmTag(t, t.ret, "g", "svg", FALSE, FALSE))
        s5 == Then(s4, LAMBDA t : RmTag(t, t.ret, "mask", "svg", TRUE, TRUE))
        s6 == Then(s5, LAMBDA t : RmAttr(t, t.root, "mask"))
        s7 == Then(s6, LAMBDA t : GetId(t, "componentContainer"))
    IN Then(s7, LAMBDA t :
           IF GetParent(t.heap, t.ret) # t.root THEN Raise(t, "ValueError")
           ELSE [t EXCEPT !.heap = RemoveChild(t.heap, t.root, t.ret)])

IsolateBoard(s) ==
    LET s1 == GetId(s, "componentContainer")
        s2 == Then(s1, LAMBDA t :
                  IF GetParent(t.heap, t.ret) # t.root THEN Raise(t, "ValueError")
                  ELSE [t EXCEPT !.heap = RemoveChild(t.heap, t.root, t.ret)])
        s3 == Then(s2, GetBoard)
        s4 == Then(s3, LAMBDA t : RmTag(t, t.ret, "g", "svg", FALSE, FALSE))
        s5 == Then(s4, LAMBDA t : RmTag(t, t.ret, "mask", "svg", TRUE, TRUE))
    IN Then(s5, LAMBDA t : RmAttr(t, t.root, "mask"))

\* rm_masks had it passed remove_parent=True to rm_tag
RmMasksWithParent(s) ==
    LET s1 == RmAttr(s, s.root, "mask")
        s2 == Then(s1, LAMBDA t : RmTag(t, t.root, "mask", "svg", TRUE, TRUE))
    IN Then(s2, RmInkElem)

RmMasks(s) ==
    LET s1 == RmAttr(s, s.root, "mask")
        s2 == Then(s1, LAMBDA t : RmTag(t, t.root, "mask", "svg", TRUE, FALSE))
    IN Then(s2, RmInkElem)

(***************************************************************************)
(* Reinsertion.                                                            *)
(***************************************************************************)
RECURSIVE IndentMask(_, _, _)
RECURSIVE IndentKids(_, _, _)
IndentKids(h, elems, indent) ==
    IF elems = <<>> THEN h
    ELSE LET elem == Head(elems)
             h1 == [h EXCEPT ![elem].tail = Indent(indent)]
             h2 == IF NKids(h1, elem) > 0 THEN IndentMask(h1, elem, indent + 2)
                   ELSE h1
         IN IndentKids(h2, Tail(elems), indent)

\* indent_mask for a group with children (group[-1] of one without raises)
IndentMask(h, group, indent) ==
    LET ks == h[group].kids
        h1 == IndentKids(h, ks, indent)
    IN [h1 EXCEPT ![ks[Len(ks)]].tail = Indent(indent - 2)]

\* the first loop of add_mask_patterns (PcbDrawToPdf/isolate_masks.py)
RECURSIVE IndentMasksLoop(_, _, _)
IndentMasksLoop(s, names, indent) ==
    IF names = <<>> THEN s
    ELSE LET mask == s.masks[Head(names)]
             h1 == [s.heap EXCEPT ![mask].text = Indent(indent + 2),
                                  ![mask].tail = Indent(indent)]
         IN IF NKids(h1, mask) = 0
            THEN Raise([s EXCEPT !.heap = h1], "IndexError")
            ELSE IndentMasksLoop(
                     [s EXCEPT !.heap = IndentMask(h1, mask, indent + 2)],
                     Tail(names), indent)

\* the second loop of add_mask_patterns had it run over the reversed store
RECURSIVE AppendMasksReversed(_, _, _)
AppendMasksReversed(h, brd, elems) ==
    IF elems = <<>> THEN h
    ELSE AppendMasksReversed(AppendChild(h, brd, elems[Len(elems)]), brd,
                             SubSeq(elems, 1, Len(elems) - 1))

RECURSIVE AppendMasks(_, _, _)
AppendMasks(h, brd, elems) ==
    IF elems = <<>> THEN h
    ELSE AppendMasks(AppendChild(h, brd, Head(elems)), brd, Tail(elems))

RECURSIVE InsertMasks(_, _, _)
InsertMasks(h, brd, elems) ==
    IF elems = <<>> THEN h
    ELSE InsertMasks(InsertBeforeLast(h, brd, Head(elems)), brd, Tail(elems))

MaskElems(s) == [i \in 1..Len(s.keys) |-> s.masks[s.keys[i]]]

\* add_mask_patterns of PcbDrawToPdf/isolate_masks.py
AddMaskPatternsPkg(s) ==
    LET s1 == GetBoard(s)
        s2 == Then(s1, LAMBDA t :
                  LET ks == t.heap[t.board].kids IN
                  IF ks = <<>> THEN Raise(t, "IndexError")
                  ELSE LET lastc == ks[Len(ks)] IN
                       IF t.heap[lastc].tail = None THEN Raise(t, "TypeError")
                       ELSE [t EXCEPT !.heap[lastc].tail = @ \o <<" ", " ">>])
        s3 == Then(s2, LAMBDA t :
                  IF t.heap[t.board].tail = None THEN Raise(t, "AttributeError")
                  ELSE [t EXCEPT !.ret = Len(StripNewlines(t.heap[t.board].tail)) + 2])
        s4 == Then(s3, LAMBDA t : IndentMasksLoop(t, t.keys, t.ret))
        s5 == Then(s4, LAMBDA t :
                  IF t.keys = <<>> THEN Raise(t, "IndexError")
                  ELSE [t EXCEPT !.heap[t.masks[t.keys[Len(t.keys)]]].tail =
                                     Indent(t.ret - 2)])
        s6 == Then(s5, LAMBDA t :
                  IF NKids(t.heap, t.board) = 0 THEN Raise(t, EmptyBoardError)
                  ELSE t)
    IN Then(s6, LAMBDA t :
           [t EXCEPT !.heap = AppendMasks(t.heap, t.board, MaskElems(t))])

\* add_mask_patterns of src/pcbdrawtopdf/isolate_masks.py
AddMaskPatternsSrc(s) ==
    LET s1 == RmInkElem(s)
        s2 == Then(s1, GetBoard)
        s3 == Then(s2, LAMBDA t :
                  IF NKids(t.heap, t.board) = 0 THEN Raise(t, EmptyBoardError)
                  ELSE t)
    IN Then(s3, LAMBDA t :
           [t EXCEPT !.heap = InsertMasks(t.heap, t.board, MaskElems(t))])

AddMaskPatterns(s) ==
    IF s.variant = "pkg" THEN AddMaskPatternsPkg(s) ELSE AddMaskPatternsSrc(s)

(***************************************************************************)
(* Export.                                                                 *)
(***************************************************************************)
\* save / save_elem: the whole working tree is written to outfile
Save(s, outfile) ==
    [s EXCEPT !.files = (outfile :> ToValue(s.heap, s.root)) @@ s.files]

MaskFileName(s, name) == s.filename \o "_" \o name \o s.ext

\* save_mask_files had it not removed the mask after writing the file
RECURSIVE SaveMaskLoopNoRemove(_, _)
SaveMaskLoopNoRemove(s, names) ==
    IF names = <<>> THEN s
    ELSE LET name == Head(names)
             mask == s.masks[name]
             s1 == GetBoard(s)
         IN IF ~Ok(s1) THEN s1
            ELSE LET h1 == AppendChild(s1.heap, s1.board, mask)
                     s2 == Save([s1 EXCEPT !.heap = h1], MaskFileName(s1, name))
                     w  == [file |-> MaskFileName(s1, name), mask |-> mask,
                            boardkids |-> h1[s1.board].kids]
                 IN SaveMaskLoopNoRemove([s2 EXCEPT !.writes = Append(@, w)],
                                         Tail(names))

RECURSIVE SaveMaskLoop(_, _)
SaveMaskLoop(s, names) ==
    IF names = <<>> THEN s
    ELSE LET name == Head(names)
             mask == s.masks[name]
             s1 == GetBoard(s)
         IN IF ~Ok(s1) THEN s1
            ELSE LET h1 == AppendChild(s1.heap, s1.board, mask)
                     s2 == Save([s1 EXCEPT !.heap = h1], MaskFileName(s1, name))
                     w  == [file |-> MaskFileName(s1, name), mask |-> mask,
                            boardkids |-> h1[s1.board].kids]
                 IN SaveMaskLoop(
                        [s2 EXCEPT !.heap = RemoveChild(h1, s1.board, mask),
                                   !.writes = Append(@, w)],
                        Tail(names))

SaveMaskFiles(s) == SaveMaskLoop(s, s.keys)

(***************************************************************************)
(* Load and reset.                                                         *)
(***************************************************************************)
\* reset had it assigned the original tree itself, not a copy of it
ResetNoCopy(s) == GetBoard([s EXCEPT !.root = s.root_orig])

Reset(s) ==
    LET c == DeepCopy(s.heap, s.root_orig)
    IN GetBoard([s EXCEPT !.heap = c.heap, !.root = c.nid])

(***************************************************************************)
(* Input documents.  Elem builds an element without layout; Layout adds    *)
(* the whitespace a pretty-printed file carries in text and tail (the last *)
(* child's tail closes the parent), or leaves every tail None for a file   *)
(* written without line breaks.                                            *)
(***************************************************************************)
Elem(tag, attrib, text, kids) ==
    [tag |-> tag, attrib |-> attrib, text |-> text, tail |-> None, kids |-> kids]

Id(x) == "id" :> x
Ref(name) == "mask" :> ("url(#" \o name \o ")")

RECURSIVE Layout(_, _, _, _)
Layout(d, pretty, depth, is_last) ==
    [tag |-> d.tag,
     attrib |-> d.attrib,
     text |-> IF pretty /\ d.kids # <<>> THEN Indent(2 * (depth + 1)) ELSE d.text,
     tail |-> IF ~pretty \/ depth = 0 THEN None
              ELSE IF is_last THEN Indent(2 * (depth - 1)) ELSE Indent(2 * depth),
     kids |-> [i \in 1..Len(d.kids) |->
                 Layout(d.kids[i], pretty, depth + 1, i = Len(d.kids))]]

\* A PcbDraw render: the three masks in <defs>, the board layers (five
\* children), the components.  inner_ref: a mask whose content is itself
\* masked.  all_groups: every board child is a <g>.
Document(pretty, all_groups, inner_ref) ==
    Layout(
      Elem("svg:svg", Id("svg1"), None, <<
        Elem("sodipodi:namedview", Id("namedview1"), None, <<>>),
        Elem("svg:desc", Id("desc1"), <<"p", "c", "b">>, <<>>),
        Elem("svg:defs", Id("defs1"), None, <<
          Elem("svg:mask", Id("hole-mask"), None, <<
            Elem("svg:path", Id("hole1"), None, <<>>) >>),
          Elem("svg:mask", Id("pads-mask-silkscreen"), None, <<
            Elem("svg:path",
                 IF inner_ref THEN Id("pad1") @@ Ref("pads-mask") ELSE Id("pad1"),
                 None, <<>>) >>),
          Elem("svg:mask", Id("pads-mask"), None, <<
            Elem("svg:path", Id("pad2"), None, <<>>) >>) >>),
        Elem("svg:g", Id("boardContainer"), None, <<
          Elem("svg:g", Id("substrate") @@ Ref("hole-mask"), None, <<
            Elem("svg:path", Id("edge1"), None, <<>>) >>),
          Elem("svg:g", Id("copper") @@ ("style" :> "fill"), None, <<>>),
          Elem("svg:g", Id("silk") @@ Ref("pads-mask-silkscreen"), None, <<>>),
          Elem("svg:g", Id("empty1"), None, <<>>),
          Elem(IF all_groups THEN "svg:g" ELSE "svg:path",
               Id("outline") @@ ("style" :> "stroke"), None, <<>>) >>),
        Elem("svg:g", Id("componentContainer"), None, <<
          Elem("svg:g", Id("c1") @@ Ref("pads-mask"), None, <<>>) >>) >>),
      pretty, 0, TRUE)

Documents ==
    {Document(p, g, r) : p \in BOOLEAN, g \in BOOLEAN, r \in BOOLEAN}

\* the prefixes an Inkscape SVG declares on its root
InkscapeNsmap == {"svg", "sodipodi", "inkscape", "xlink"}

\* etree.parse: the elements of the document become objects, numbered in
\* document order from nid first
RECURSIVE TreeSize(_)
TreeSize(d) == 1 + SumSeq([i \in 1..Len(d.kids) |-> TreeSize(d.kids[i])])

RECURSIVE Parse(_, _)
RECURSIVE ParseKids(_, _)
ParseKids(ds, first) ==
    IF ds = <<>> THEN <<>>
    ELSE Parse(Head(ds), first) @@ ParseKids(Tail(ds), first + TreeSize(Head(ds)))

Parse(d, first) ==
    LET starts == [i \in 1..Len(d.kids) |->
                     first + 1 + SumSeq([j \in 1..(i - 1) |-> TreeSize(d.kids[j])])]
    IN (first :> [tag |-> d.tag, attrib |-> d.attrib, text |-> d.text,
                  tail |-> d.tail, kids |-> starts])
       @@ ParseKids(d.kids, first + 1)

\* load(filepath): filepath is given split as os.path does it
Load(s, path, doc) ==
    LET s1 == [s EXCEPT !.filename = path.stem, !.ext = path.ext,
                        !.heap = Parse(doc, 1), !.root_orig = 1,
                        !.nsmap = InkscapeNsmap]
        c  == DeepCopy(s1.heap, s1.root_orig)
        s2 == [s1 EXCEPT !.heap = c.heap, !.root = c.nid]
        s3 == IF s.variant = "pkg" THEN Clean(s2) ELSE s2
    IN Then(s3, GetBoard)

(***************************************************************************)
(* The state machine: one action per public method call.                   *)
(***************************************************************************)
Values(f) == {f[k] : k \in DOMAIN f}

Cur ==
    [variant |-> variant, heap |-> heap, nsmap |-> nsmap, root_orig |-> root_orig,
     root |-> root, board |-> board, masks |-> masks, keys |-> keys,
     filename |-> filename, ext |-> ext, files |-> files,
     err |-> "ok", ret |-> 0, writes |-> <<>>]

\* the call returns or raises; objects nothing refers to any more are freed
Commit(r, op, arg) ==
    /\ heap' = Collect(r.heap, {r.root_orig, r.root, r.board} \cup Values(r.masks))
    /\ nsmap' = r.nsmap
    /\ root_orig' = r.root_orig
    /\ root' = r.root
    /\ board' = r.board
    /\ masks' = r.masks
    /\ keys' = r.keys
    /\ filename' = r.filename
    /\ ext' = r.ext
    /\ files' = r.files
    /\ last' = [op |-> op, arg |-> arg, err |-> r.err, writes |-> r.writes]
    /\ UNCHANGED variant

InputPath == [stem |-> "board", ext |-> ".svg"]

Init ==
    /\ variant \in {"pkg", "src"}
    /\ loaded = FALSE
    /\ heap = <<>>
    /\ nsmap = {}
    /\ root_orig = 0
    /\ root = 0
    /\ board = 0
    /\ masks = <<>>
    /\ keys = <<>>
    /\ filename = ""
    /\ ext = ""
    /\ files = <<>>
    /\ parsed = <<>>
    /\ last = [op |-> "init", arg |-> <<>>, err |-> "ok", writes |-> <<>>]
    /\ calls = <<>>

DoLoad ==
    /\ ~loaded
    /\ \E doc \in Documents :
          /\ Commit(Load(Cur, InputPath, doc), "load", <<>>)
          /\ parsed' = doc
    /\ loaded' = TRUE
    /\ UNCHANGED calls

Call(r, op, arg) ==
    /\ loaded
    /\ last.op = "load" => last.err = "ok"
    /\ Len(calls) < MaxOps
    /\ Commit(r, op, arg)
    /\ calls' = Append(calls, [op |-> op, err |-> r.err])
    /\ UNCHANGED <<loaded, parsed>>

DoGetMasks == Call(GetMasks(Cur), "get_masks", <<>>)
DoRmMasks == Call(RmMasks(Cur), "rm_masks", <<>>)
DoIsolateBoard == Call(IsolateBoard(Cur), "isolate_board", <<>>)
DoAddMaskPatterns == Call(AddMaskPatterns(Cur), "add_mask_patterns", <<>>)
DoSaveMaskFiles == Call(SaveMaskFiles(Cur), "save_mask_files", <<>>)
DoReset == Call(Reset(Cur), "reset", <<>>)

\* rm_attr called on its own, on any element of the working tree that has
\* children (".//*" selects nothing below a leaf)
AttrNames == {"mask", "id"}
WorkingElems == {n \in Range(Preorder(heap, root)) : NKids(heap, n) > 0}

DoRmAttr ==
    /\ loaded
    /\ \E elem \in WorkingElems, attr \in AttrNames :
          Call(RmAttr(Cur, elem, attr), "rm_attr", <<elem, attr>>)

Next ==
    \/ DoLoad
    \/ DoGetMasks
    \/ DoRmMasks
    \/ DoIsolateBoard
    \/ DoAddMaskPatterns
    \/ DoSaveMaskFiles
    \/ DoReset

Spec == Init /\ [][Next]_vars

\* the specification for the contract of rm_attr: a loaded document and
\* calls of rm_attr on any scope
MaxAttrCalls == 2
NextRmAttr ==
    \/ DoLoad
    \/ Len(calls) < MaxAttrCalls /\ DoRmAttr

SpecRmAttr == Init /\ [][NextRmAttr]_vars

(***************************************************************************)
(* Documents with the shapes the tree primitives meet besides the plain    *)
(* PcbDraw render: a <mask> beneath the board (a direct child of it, or in *)
(* a wrapper that is no <g>), a mask attribute on the root element, a      *)
(* <mask> inside a <mask>, adjacent leaves that carry only an id.          *)
(***************************************************************************)
BoardMaskPlaces == {"none", "direct", "wrapped"}

ClipMask ==
    Elem("svg:mask", Id("clip1"), None, <<
      Elem("svg:path", Id("clip1p") @@ ("d" :> "M0"), None, <<>>) >>)

TreeDocument(in_board, root_ref, nested) ==
    Layout(
      Elem("svg:svg",
           IF root_ref THEN Id("svg1") @@ Ref("hole-mask") ELSE Id("svg1"),
           None, <<
        Elem("sodipodi:namedview", Id("namedview1"), None, <<>>),
        Elem("svg:desc", Id("desc1"), <<"p", "c", "b">>, <<>>),
        Elem("svg:defs", Id("defs1"), None, <<
          Elem("svg:mask", Id("hole-mask"), None, <<
            Elem("svg:path", Id("hole1"), None, <<>>) >>),
          Elem("svg:mask", Id("pads-mask-silkscreen"), None, <<
            Elem("svg:path", Id("pad1") @@ ("d" :> "M1"), None, <<>>) >>),
          Elem("svg:mask", Id("pads-mask"), None,
            <<Elem("svg:path", Id("pad2") @@ ("d" :> "M2"), None, <<>>)>>
            \o (IF nested
                THEN <<Elem("svg:mask", Id("inner1"), None, <<
                         Elem("svg:path", Id("inner1p") @@ ("d" :> "M3"),
                              None, <<>>) >>)>>
                ELSE <<>>)) >>),
        Elem("svg:g", Id("boardContainer"), None,
          <<Elem("svg:g", Id("substrate") @@ Ref("hole-mask"), None, <<
              Elem("svg:path", Id("edge1"), None, <<>>) >>)>>
          \o (CASE in_board = "none" -> <<>>
                [] in_board = "direct" -> <<ClipMask>>
                [] in_board = "wrapped" ->
                     <<Elem("svg:switch", Id("wrap1"), None, <<ClipMask>>)>>)
          \o <<Elem("svg:path", Id("outline") @@ ("style" :> "stroke"),
                    None, <<>>)>>),
        Elem("svg:g", Id("componentContainer"), None, <<
          Elem("svg:path", Id("p1"), None, <<>>),
          Elem("svg:path", Id("p2"), None, <<>>),
          Elem("svg:g", Id("c1") @@ Ref("pads-mask"), None, <<>>) >>) >>),
      TRUE, 0, TRUE)

TreeDocuments ==
    {TreeDocument(b, r, n) : b \in BoardMaskPlaces, r \in BOOLEAN, n \in BOOLEAN}

DoLoadTree ==
    /\ ~loaded
    /\ \E doc \in TreeDocuments :
          /\ Commit(Load(Cur, InputPath, doc), "load", <<>>)
          /\ parsed' = doc
    /\ loaded' = TRUE
    /\ UNCHANGED calls

\* the calls of the engine on these documents
NextTree ==
    \/ DoLoadTree
    \/ DoGetMasks
    \/ DoRmMasks
    \/ DoIsolateBoard
    \/ DoAddMaskPatterns
    \/ DoSaveMaskFiles
    \/ DoReset

SpecTree == Init /\ [][NextTree]_vars

\* the specification for the contract of rm_tag: a loaded document and
\* calls of rm_tag on any element that has children
MaxTagCalls == 1
TagNames == {"mask", "g"}

DoRmTag ==
    /\ loaded
    /\ \E elem \in WorkingElems, tag \in TagNames,
          recursive \in BOOLEAN, remove_parent \in BOOLEAN :
          Call(RmTag(Cur, elem, tag, "svg", recursive, remove_parent),
               "rm_tag", <<elem, tag, recursive, remove_parent>>)

NextRmTag ==
    \/ DoLoadTree
    \/ Len(calls) < MaxTagCalls /\ DoRmTag

SpecRmTag == Init /\ [][NextRmTag]_vars

\* the specification for rm_elem_empty (a method of
\* PcbDrawToPdf/isolate_masks.py only): a loaded document and calls of
\* rm_elem_empty on any element that has children
MaxPruneCalls == 2

DoRmElemEmpty ==
    /\ loaded
    /\ variant = "pkg"
    /\ \E elem \in WorkingElems :
          Call(RmElemEmpty(Cur, elem), "rm_elem_empty", <<elem>>)

NextPrune ==
    \/ DoLoadTree
    \/ Len(calls) < MaxPruneCalls /\ DoRmElemEmpty

SpecPrune == Init /\ [][NextPrune]_vars

(***************************************************************************)
(* Vocabulary of the properties.                                           *)
(***************************************************************************)
SeqMinus(seq, X) == SelectSeq(seq, LAMBDA x : x \notin X)
StoreElems == Values(masks)
MaskOrder == [i \in 1..Len(keys) |-> masks[keys[i]]]

\* this step is a call of op that returned
Returned(op) == last'.op = op /\ last'.err = "ok"

\* the elements of a serialized document, in document order
RECURSIVE ValueElems(_)
ValueElems(v) ==
    <<v>> \o Flat([i \in 1..Len(v.kids) |-> ValueElems(v.kids[i])])

ValueById(v, id) ==
    SelectSeq(ValueElems(v),
        LAMBDA e : "id" \in DOMAIN e.attrib /\ e.attrib["id"] = id)

CarriesMask(v) == \E e \in Range(ValueElems(v)) : "mask" \in DOMAIN e.attrib

\* tag, attributes and descendants of an element, without the whitespace
RECURSIVE Content(_, _)
Content(h, n) ==
    [tag |-> h[n].tag, attrib |-> h[n].attrib,
     kids |-> [i \in 1..Len(h[n].kids) |-> Content(h, h[n].kids[i])]]

C2_SaveTransactional ==
    [][Returned("save_mask_files") =>
         /\ [i \in 1..Len(last'.writes) |-> last'.writes[i].file]
              = [i \in 1..Len(keys) |-> MaskFileName(Cur, keys[i])]
         /\ \A i \in 1..Len(last'.writes) :
              LET w == last'.writes[i] IN
              /\ {k \in Range(w.boardkids) : k \in StoreElems} = {masks[keys[i]]}
              /\ w.boardkids[Len(w.boardkids)] = masks[keys[i]]
         /\ heap'[board'].kids = heap[board'].kids]_vars

(***************************************************************************)
(* C3  load, get_masks, isolate_board, save_mask_files on a document whose *)
(* board has five children.                                                *)
(***************************************************************************)
ExportNames == {MaskFileName(Cur, MaskNames[i]) : i \in 1..3}

ExportScenario ==
    /\ Len(calls) = 2
    /\ calls[1].op = "get_masks"
    /\ calls[2].op = "isolate_board"
    /\ last'.op = "save_mask_files"

ExportResult ==
    /\ calls[1].err = "ok" /\ calls[2].err = "ok" /\ last'.err = "ok"
    /\ DOMAIN files' = ExportNames
    /\ Len(last'.writes) = 3
    /\ \A f \in DOMAIN files' :
         /\ Len(ValueById(files'[f], "boardContainer")) = 1
         /\ Len(ValueById(files'[f], "boardContainer")[1].kids) = 1
         /\ ~CarriesMask(files'[f])

BoardAllGroups(doc) ==
    \A b \in Range(ValueById(doc, "boardContainer")) :
        \A i \in 1..Len(b.kids) : b.kids[i].tag = GTag

MasksCarryNoRef(doc) ==
    /\ "mask" \notin DOMAIN doc.attrib
    /\ \A i \in 1..3 : \A m \in Range(ValueById(doc, MaskNames[i])) :
         \A j \in 1..Len(m.kids) : ~CarriesMask(m.kids[j])

C4_CaptureReadsOnly ==
    [][Returned("get_masks") =>
         /\ root' = root /\ board' = board /\ files' = files
         /\ \A n \in Range(Preorder(heap, root)) : heap'[n] = heap[n]
         /\ ToValue(heap', root') = ToValue(heap, root)
         /\ ToValue(heap', root_orig') = ToValue(heap, root_orig)]_vars

\* C4 witness: a capture has returned; the store holds the three names and
\* none of the stored elements is an element of the working tree
C4_Witness ==
    /\ last.op = "get_masks" /\ last.err = "ok"
    /\ DOMAIN masks = Range(MaskNames)
    /\ \A k \in DOMAIN masks : masks[k] \notin Range(Preorder(heap, root))

(***************************************************************************)
(* C5  the mask store after get_masks.                                     *)
(***************************************************************************)
\* C5: after a returning get_masks the store has exactly the three names, in
\* the order hole-mask, pads-mask-silkscreen, pads-mask, and each stored
\* element has no parent, the tag g, the text "" and the tail "".
C5_StoreAfterCapture ==
    last.op = "get_masks" /\ last.err = "ok" =>
        /\ keys = MaskNames
        /\ DOMAIN masks = Range(MaskNames)
        /\ \A k \in DOMAIN masks :
             /\ GetParent(heap, masks[k]) = 0
             /\ heap[masks[k]].tag = GTag
             /\ heap[masks[k]].text = <<>>
             /\ heap[masks[k]].tail = <<>>

\* C5 witness: a capture has returned from a tree whose mask elements carry
\* layout whitespace and the tag mask
C5_Witness ==
    /\ last.op = "get_masks" /\ last.err = "ok"
    /\ \E n \in Range(Preorder(heap, root)) :
         /\ heap[n].tag = "svg:mask"
         /\ heap[n].attrib["id"] = "hole-mask"
         /\ heap[n].text # <<>> /\ heap[n].tail # <<>> /\ heap[n].tail # None

(***************************************************************************)
(* C6  get_masks twice in a row.                                           *)
(***************************************************************************)
\* C6: a get_masks that directly follows a returning get_masks returns too,
\* keeps the three names in their order and stores, under each name, a
\* subtree equal to the one stored before (tags, attributes, texts, tails).
C6_CaptureIdempotent ==
    [][last.op = "get_masks" /\ last.err = "ok" /\ last'.op = "get_masks" =>
         /\ last'.err = "ok"
         /\ keys' = keys
         /\ DOMAIN masks' = DOMAIN masks
         /\ \A k \in DOMAIN masks :
              ToValue(heap', masks'[k]) = ToValue(heap, masks[k])]_vars

\* C6 witness: two captures in a row have returned
C6_Witness ==
    /\ Len(calls) >= 2
    /\ calls[Len(calls) - 1] = [op |-> "get_masks", err |-> "ok"]
    /\ calls[Len(calls)] = [op |-> "get_masks", err |-> "ok"]
    /\ Len(keys) = 3

(***************************************************************************)
(* C7  reset and the original tree.                                        *)
(***************************************************************************)
\* C7: whatever was called, the original tree equals the document as parsed
\* at load, and after reset the working tree equals it too (and is another
\* object than the original tree).
C7_ResetRestores ==
    loaded =>
        /\ ToValue(heap, root_orig) = parsed
        /\ last.op = "reset" =>
             /\ last.err = "ok"
             /\ root # root_orig
             /\ ToValue(heap, root) = parsed

\* C7 witness: reset has run right after a returning isolate_board
C7_Witness ==
    /\ Len(calls) >= 2
    /\ calls[Len(calls) - 1] = [op |-> "isolate_board", err |-> "ok"]
    /\ last.op = "reset" /\ last.err = "ok"

(***************************************************************************)
(* C8  add_mask_patterns on a board without children.                      *)
(***************************************************************************)
EmptyBoardBefore ==
    LET r == GetBoard(Cur) IN Ok(r) /\ NKids(heap, r.ret) = 0

\* C8 as claimed: the call fails with the dedicated "board has no elements"
\* error, the board is still empty and the mask store (names, order, content
\* of every mask) is unchanged.
C8_EmptyBoardError ==
    [][last'.op = "add_mask_patterns" /\ EmptyBoardBefore =>
         /\ last'.err = EmptyBoardError
         /\ NKids(heap', GetBoard(Cur).ret) = 0
         /\ keys' = keys /\ masks' = masks
         /\ \A k \in DOMAIN masks :
              ToValue(heap', masks[k]) = ToValue(heap, masks[k])]_vars

(***************************************************************************)
(* C9  rm_attr(scope, attr), under SpecRmAttr.                             *)
(***************************************************************************)
Scope == last'.arg[1]
Attr == last'.arg[2]
Carried(n) == HasAttr(heap, n, Attr)

\* every attribute but id and attr is as it was
OthersKept(n) ==
    /\ DOMAIN heap'[n].attrib \ {"id", Attr} = DOMAIN heap[n].attrib \ {"id", Attr}
    /\ \A k \in DOMAIN heap[n].attrib \ {"id", Attr} :
         heap'[n].attrib[k] = heap[n].attrib[k]

\* apart from its attributes the element is as it was
ShapeKept(n) ==
    /\ heap'[n].tag = heap[n].tag
    /\ heap'[n].text = heap[n].text
    /\ heap'[n].tail = heap[n].tail
    /\ heap'[n].kids = heap[n].kids

SecondCallChangesNothing ==
    LET again == RmAttr([Cur EXCEPT !.heap = heap'], Scope, Attr)
    IN Ok(again) /\ again.heap = heap'

\* C9 as claimed, for the attribute of its example (attr = mask): after a
\* returning call no element of the tree rooted at scope carries attr, every
\* element that carried attr = v with id = x has the id x_v, everything else
\* is unchanged, and a second call changes nothing.
C9_AttrStripped ==
    [][Returned("rm_attr") /\ Attr = "mask" =>
         /\ \A n \in Range(Preorder(heap, Scope)) : ~HasAttr(heap', n, Attr)
         /\ \A n \in Range(Preorder(heap, Scope)) :
              Carried(n) /\ HasAttr(heap, n, "id") =>
                 /\ HasAttr(heap', n, "id")
                 /\ heap'[n].attrib["id"] =
                      heap[n].attrib["id"] \o "_" \o heap[n].attrib[Attr]
         /\ \A n \in DOMAIN heap :
              /\ ShapeKept(n) /\ OthersKept(n)
              /\ ~(Carried(n) /\ n \in Range(Preorder(heap, Scope))) =>
                   heap'[n] = heap[n]
         /\ SecondCallChangesNothing]_vars

\* C9 amended: the call visits the descendants of scope, not scope itself.
\* After a returning call no descendant of scope carries attr; every
\* descendant that carried attr = v with id = x has the id x_v when attr is
\* not id (with attr = id it has no id any more); scope, every element that
\* did not carry attr and every other attribute are unchanged; a second call
\* changes nothing.  The call returns unless a descendant carries attr and
\* has no id, and then it raises KeyError.
C9_DescendantsStripped ==
    [][last'.op = "rm_attr" =>
         LET below == Range(Descendants(heap, Scope))
             hit == {n \in below : Carried(n)}
         IN /\ last'.err = IF \A n \in hit : HasAttr(heap, n, "id")
                           THEN "ok" ELSE "KeyError"
            /\ last'.err = "ok" =>
                 /\ \A n \in below : ~HasAttr(heap', n, Attr)
                 /\ \A n \in hit :
                      /\ ShapeKept(n) /\ OthersKept(n)
                      /\ IF Attr = "id" THEN ~HasAttr(heap', n, "id")
                         ELSE /\ HasAttr(heap', n, "id")
                              /\ heap'[n].attrib["id"] =
                                   heap[n].attrib["id"] \o "_" \o heap[n].attrib[Attr]
                 /\ \A n \in DOMAIN heap \ hit : heap'[n] = heap[n]
                 /\ SecondCallChangesNothing]_vars

\* C9 witness: a call with attr = mask has returned, on a scope below which
\* an element carried the attribute: its id now ends in the mask's name and
\* nothing below the scope carries the attribute
C9_Witness ==
    /\ last.op = "rm_attr" /\ last.err = "ok" /\ last.arg[2] = "mask"
    /\ \E n \in Range(Descendants(heap, last.arg[1])) :
         heap[n].attrib = Id("substrate_url(#hole-mask)")
    /\ \A n \in Range(Descendants(heap, last.arg[1])) : ~HasAttr(heap, n, "mask")

(***************************************************************************)
(* C10  the captured masks and later calls.                                *)
(***************************************************************************)
TreeCalls ==
    {"rm_masks", "isolate_board", "add_mask_patterns", "save_mask_files", "reset"}

\* C10 as claimed: no call that works on the tree changes the tag, the
\* attributes or the descendants of a mask held in the store.
C10_MasksIndependent ==
    [][last'.op \in TreeCalls =>
         \A k \in DOMAIN masks :
             /\ k \in DOMAIN masks'
             /\ Content(heap', masks'[k]) = Content(heap, masks[k])]_vars

(***************************************************************************)
(* C11  the working tree after isolate_board, under SpecTree.              *)
(***************************************************************************)
MaskTag == "svg:mask"
InTree(h, n) == n \in Range(Preorder(h, root'))

\* C11 as claimed: after a returning isolate_board the component fragment is
\* not in the working tree, the board fragment is still in it, the board has
\* no direct child <g>, and no <mask> is left anywhere beneath the board.
C11_BoardIsolated ==
    [][Returned("isolate_board") =>
         LET components == GetId(Cur, "componentContainer").ret
         IN /\ ~InTree(heap', components)
            /\ InTree(heap', board')
            /\ \A i \in 1..NKids(heap', board') :
                 heap'[heap'[board'].kids[i]].tag # GTag
            /\ \A n \in Range(Descendants(heap', board')) :
                 heap'[n].tag # MaskTag]_vars

(***************************************************************************)
(* C12  the working tree after rm_masks, under SpecTree.                   *)
(***************************************************************************)
Tree(h, r) == Range(Preorder(h, r))
MasksIn(h, r) == {n \in Tree(h, r) : h[n].tag = MaskTag}

InkElemsGone ==
    \A i \in 1..NKids(heap', root') :
        heap'[heap'[root'].kids[i]].tag \notin {"sodipodi:namedview", "svg:desc"}

\* C12 as claimed: after a returning rm_masks no <mask> is in the working
\* tree, the parent each removed <mask> had is still in the tree, no element
\* carries a mask attribute, and the namedview and desc children of the root
\* are gone.
C12_MasksStripped ==
    [][Returned("rm_masks") =>
         /\ MasksIn(heap', root') = {}
         /\ \A m \in MasksIn(heap, root) : GetParent(heap, m) \in Tree(heap', root')
         /\ \A n \in Tree(heap', root') : ~HasAttr(heap', n, "mask")
         /\ InkElemsGone]_vars

\* C12 amended: after a returning rm_masks no <mask> is in the working tree;
\* the parent each removed <mask> had is still in the tree unless it is a
\* <mask> itself or lies inside one; no element below the root carries a
\* mask attribute (the root is not visited and keeps one it has); the
\* namedview and desc children of the root are gone.
C12_MasksStrippedBelowRoot ==
    [][Returned("rm_masks") =>
         LET gone == UNION {Tree(heap, m) : m \in MasksIn(heap, root)}
         IN /\ MasksIn(heap', root') = {}
            /\ \A m \in MasksIn(heap, root) :
                 GetParent(heap, m) \notin gone =>
                    GetParent(heap, m) \in Tree(heap', root')
            /\ \A n \in Range(Descendants(heap', root')) : ~HasAttr(heap', n, "mask")
            /\ HasAttr(heap', root', "mask") <=> HasAttr(heap, root, "mask")
            /\ InkElemsGone]_vars

\* C12 witness: rm_masks has returned as the first call on a loaded document:
\* <defs>, the parent the three masks had, is in the tree without children
C12_Witness ==
    /\ Len(calls) = 1
    /\ last.op = "rm_masks" /\ last.err = "ok"
    /\ \E n \in Tree(heap, root) :
         heap[n].attrib = Id("defs1") /\ NKids(heap, n) = 0

(***************************************************************************)
(* C13  rm_tag(elem, tag, recursive, remove_parent=True), under SpecRmTag. *)
(***************************************************************************)
\* the matches of the call this step makes, found before anything is removed
Matches ==
    LET elem == last'.arg[1]
        scope == IF last'.arg[3] THEN Descendants(heap, elem) ELSE heap[elem].kids
    IN {n \in Range(scope) : heap[n].tag = QName("svg", last'.arg[2])}

RemoveParentCall == last'.op = "rm_tag" /\ last'.arg[4]

\* the parent of every match whose parent has a parent has left the tree
ParentsRemoved ==
    \A m \in Matches :
        LET p == GetParent(heap, m) IN
        GetParent(heap, p) # 0 => p \notin Tree(heap', root')

\* C13 as claimed: with remove_parent set the call does not fail; the parent
\* of a match is removed from its own parent when it has one; a match whose
\* parent is the root stays in the tree, and so does the root.
C13_RootMatchSkipped ==
    [][RemoveParentCall =>
         /\ last'.err = "ok"
         /\ ParentsRemoved
         /\ \A m \in Matches :
              GetParent(heap, GetParent(heap, m)) = 0 =>
                 /\ root' = root
                 /\ m \in Range(heap'[root'].kids)]_vars

\* C13 amended: with remove_parent set the call does not fail; the parent of
\* a match is removed from its own parent when it has one; a match whose
\* parent is the root is itself removed from the root, which stays.
C13_RootMatchRemoved ==
    [][RemoveParentCall =>
         /\ last'.err = "ok"
         /\ ParentsRemoved
         /\ \A m \in Matches :
              GetParent(heap, GetParent(heap, m)) = 0 =>
                 /\ root' = root
                 /\ m \notin Tree(heap', root')]_vars

\* C13 witness: rm_tag(root, "g", remove_parent=True) has returned on a
\* loaded document, whose root had the board and the components as <g>
\* children: the root has no <g> child any more
C13_Witness ==
    /\ Len(calls) = 1
    /\ last.op = "rm_tag" /\ last.err = "ok"
    /\ last.arg = <<root, "g", FALSE, TRUE>>
    /\ \A i \in 1..NKids(heap, root) : heap[heap[root].kids[i]].tag # GTag

(***************************************************************************)
(* C14  rm_elem_empty(scope), under SpecPrune.                             *)
(***************************************************************************)
\* a leaf without text and with exactly one attribute
Prunable(n) ==
    /\ NKids(heap, n) = 0
    /\ heap[n].text = None
    /\ Cardinality(DOMAIN heap[n].attrib) = 1

IsolatedBefore ==
    \E i \in 1..Len(calls) :
        /\ calls[i] = [op |-> "isolate_board", err |-> "ok"]
        /\ \A j \in (i + 1)..Len(calls) : calls[j].op # "reset"

\* C15: an isolate_board called after a returning isolate_board, with no
\* reset in between, raises IndexError (get_id finds no componentContainer)
\* and leaves every element of the working tree, the board, the mask store
\* and the files as they were.
C15_SecondIsolateFails ==
    [][last'.op = "isolate_board" /\ IsolatedBefore =>
         /\ last'.err = "IndexError"
         /\ root' = root /\ board' = board
         /\ heap' = heap
         /\ masks' = masks /\ keys' = keys
         /\ files' = files]_vars

\* C15 witness: a second isolate_board has raised IndexError, the masks
\* captured before being children of the board at that time
C15_Witness ==
    /\ IsolatedBefore
    /\ last.op = "isolate_board" /\ last.err = "IndexError"
    /\ Len(keys) = 3
    /\ \A k \in DOMAIN masks : GetParent(heap, masks[k]) = board

====
